---- MODULE Spec2Model ----
(***************************************************************************)
(* A model of api/index.py: the Flask handlers validate_song,             *)
(* download_songs and download_file, the helpers they call, and the       *)
(* collaborators (yt-dlp, spotipy, werkzeug, the local file system) as    *)
(* far as the handlers depend on them.                                    *)
(*                                                                         *)
(* Text is a sequence of one-character strings.  Python's None is the     *)
(* value None below.  A raised exception is the field "raised" of the     *)
(* record an operator returns.                                            *)
(*                                                                         *)
(* Relative paths are taken against one directory: the process's working  *)
(* directory is the application's root directory.                         *)
(***************************************************************************)
EXTENDS Integers, Sequences, FiniteSets, TLC

VARIABLES
    fs,         \* names of the regular files in the download directory
    dresp,      \* the answer of the latest POST /download_songs
    req,        \* the GET /download_file requests, by request
    sinceCreate,\* per file name: requests served it since a download last produced it
    gone,       \* file names delivered and deleted, not produced again since
    provider,   \* the search provider's result list for the query
    vresp,      \* the answer of the latest POST /validate_song
    pages       \* per page: the song_options last answered for it

vars == <<fs, dresp, req, sinceCreate, gone, provider, vresp, pages>>

\* ------------------------------------------------------------------ bounds

MaxSongs == 2       \* length of a download batch
MaxReq == 2         \* GET /download_file requests in one behaviour
MaxResults == 11    \* entries the search provider has for a query
MaxPage == 2        \* page numbers asked for

\* ------------------------------------------------------------------- text

None == <<"None">>

DOWNLOAD_FOLDER == <<"d", "o", "w", "n", "l", "o", "a", "d", "s">>

Mp3 == <<".", "m", "p", "3">>

Slash == <<"/">>

StartsWith(s, p) == Len(s) >= Len(p) /\ SubSeq(s, 1, Len(p)) = p

HasSep(s) == \E i \in 1..Len(s) : s[i] = "/"

\* str.split('/')
RECURSIVE Split(_)
Split(s) ==
    IF ~HasSep(s) THEN <<s>>
    ELSE LET k == CHOOSE i \in 1..Len(s) :
                     s[i] = "/" /\ \A j \in 1..(i - 1) : s[j] # "/"
         IN  <<SubSeq(s, 1, k - 1)>> \o Split(SubSeq(s, k + 1, Len(s)))

\* '/'.join(comps)
RECURSIVE JoinComps(_)
JoinComps(comps) ==
    IF Len(comps) = 0 THEN <<>>
    ELSE IF Len(comps) = 1 THEN comps[1]
    ELSE comps[1] \o Slash \o JoinComps(Tail(comps))

\* the loop of posixpath.normpath over the components
RECURSIVE NormComps(_, _, _)
NormComps(comps, new_comps, initial_slashes) ==
    IF Len(comps) = 0 THEN new_comps
    ELSE LET comp == Head(comps)
             n == Len(new_comps)
         IN  IF comp = <<>> \/ comp = <<".">>
             THEN NormComps(Tail(comps), new_comps, initial_slashes)
             ELSE IF comp # <<".", ".">>
                     \/ (initial_slashes = 0 /\ n = 0)
                     \/ (n > 0 /\ new_comps[n] = <<".", ".">>)
             THEN NormComps(Tail(comps), Append(new_comps, comp), initial_slashes)
             ELSE IF n > 0
             THEN NormComps(Tail(comps), SubSeq(new_comps, 1, n - 1), initial_slashes)
             ELSE NormComps(Tail(comps), new_comps, initial_slashes)

\* posixpath.normpath
normpath(path) ==
    IF path = <<>> THEN <<".">>
    ELSE LET initial_slashes ==
                 IF ~StartsWith(path, Slash) THEN 0
                 ELSE IF StartsWith(path, <<"/", "/">>)
                         /\ ~StartsWith(path, <<"/", "/", "/">>) THEN 2
                 ELSE 1
             joined == JoinComps(NormComps(Split(path), <<>>, initial_slashes))
             out == [i \in 1..initial_slashes |-> "/"] \o joined
         IN  IF out = <<>> THEN <<".">> ELSE out

\* posixpath.join(a, b)
pathjoin(a, b) ==
    IF StartsWith(b, Slash) THEN b
    ELSE IF a = <<>> \/ a[Len(a)] = "/" THEN a \o b
    ELSE a \o Slash \o b

\* os.path.basename
basename(p) == LET comps == Split(p) IN comps[Len(comps)]

\* ------------------------------------------------------------ file system

\* The place a path names once the operating system has resolved its "." and
\* ".." segments, and whether that place is the download directory or below it.
InDownloads(path) ==
    LET n == normpath(path)
    IN  n = DOWNLOAD_FOLDER \/ StartsWith(n, DOWNLOAD_FOLDER \o Slash)

\* The name of the entry of the download directory that a path names, None
\* when it names anything else.
EntryOf(path) ==
    LET n == normpath(path)
        d == Len(DOWNLOAD_FOLDER) + 1
    IN  IF StartsWith(n, DOWNLOAD_FOLDER \o Slash)
           /\ ~HasSep(SubSeq(n, d + 1, Len(n)))
        THEN SubSeq(n, d + 1, Len(n))
        ELSE None

IsFile(path, files) == EntryOf(path) # None /\ EntryOf(path) \in files

os_remove_noop(path, files) == [raised |-> FALSE, files |-> files]

\* os.remove(path): FileNotFoundError when there is no such file
os_remove(path, files) ==
    IF path # None /\ IsFile(path, files)
    THEN [raised |-> FALSE, files |-> files \ {EntryOf(path)}]
    ELSE [raised |-> TRUE, files |-> files]

safe_join_unchecked(directory, filename) ==
    pathjoin(directory, IF filename # <<>> THEN normpath(filename) ELSE filename)

\* werkzeug.utils.safe_join(directory, filename): None for a name that leaves
\* the directory
safe_join(directory, filename) ==
    LET name == IF filename # <<>> THEN normpath(filename) ELSE filename
    IN  IF StartsWith(name, Slash)
           \/ name = <<".", ".">>
           \/ StartsWith(name, <<".", ".", "/">>)
        THEN None
        ELSE pathjoin(directory, name)

\* flask.send_file(path, as_attachment=True): raises before any file system
\* call for None, and after one for a path that is no regular file.
send_file(path, files) ==
    IF path = None THEN [raised |-> TRUE, touched |-> None]
    ELSE IF ~IsFile(path, files) THEN [raised |-> TRUE, touched |-> path]
    ELSE [raised |-> FALSE, touched |-> path]

\* ------------------------------------------------- POST /download_songs

SongNames == {<<"a">>, <<"b">>}

\* video titles the search may come back with; one holds a path separator
Titles == {<<"a">>, <<"a", "/", "b">>}

\* yt-dlp writes the file under the title with its path separators replaced
\* ("|" stands for the replacement character U+29F8)
sanitize(title) == [i \in 1..Len(title) |-> IF title[i] = "/" THEN "|" ELSE title[i]]

FileNames == {sanitize(t) \o Mp3 : t \in Titles}

\* What ydl.extract_info("ytsearch:<name>", download=True) can do: raise, or
\* return a playlist (with 'entries', possibly empty) or a single video.
Outcomes ==
    {[kind |-> "raise"]}
    \cup {[kind |-> "info", info |-> [entries |-> <<>>]]}
    \cup {[kind |-> "info", info |-> [entries |-> <<[title |-> t]>>]] : t \in Titles}
    \cup {[kind |-> "info", info |-> [title |-> t]] : t \in Titles}

\* the titles whose audio the call downloaded and transcoded
Downloaded(info) ==
    IF "entries" \in DOMAIN info
    THEN {info.entries[i].title : i \in 1..Len(info.entries)}
    ELSE {info.title}

search_and_download_song(song_name, out, files) ==
    IF out.kind = "raise"
    THEN [raised |-> TRUE, value |-> None, files |-> files, written |-> {}]
    ELSE LET info == out.info
             written == {sanitize(t) \o Mp3 : t \in Downloaded(info)}
         IN  IF "entries" \in DOMAIN info
             THEN IF Len(info.entries) = 0
                  THEN \* info['entries'][0]: IndexError
                       [raised |-> TRUE, value |-> None,
                        files |-> files \cup written, written |-> written]
                  ELSE [raised |-> FALSE,
                        value |-> DOWNLOAD_FOLDER \o Slash \o info.entries[1].title \o Mp3,
                        files |-> files \cup written, written |-> written]
             ELSE [raised |-> FALSE, value |-> None,
                   files |-> files \cup written, written |-> written]

\* the for loop of download_songs from song i on
RECURSIVE download_loop(_, _, _, _, _, _)
download_loop(song_names, outs, i, downloaded_songs, files, written) ==
    IF i > Len(song_names)
    THEN [status |-> 200, downloaded_songs |-> downloaded_songs,
          files |-> files, written |-> written, processed |-> i - 1]
    ELSE LET file_path == search_and_download_song(song_names[i], outs[i], files)
         IN  IF file_path.raised
             THEN \* nothing catches it: Flask answers 500
                  [status |-> 500, downloaded_songs |-> None,
                   files |-> file_path.files,
                   written |-> written \cup file_path.written, processed |-> i]
             ELSE download_loop(song_names, outs, i + 1,
                      IF file_path.value # None
                      THEN Append(downloaded_songs, basename(file_path.value))
                      ELSE downloaded_songs,
                      file_path.files, written \cup file_path.written)

download_songs(song_names, outs, files) ==
    download_loop(song_names, outs, 1, <<>>, files, {})

Batches(n) == UNION {[1..k -> SongNames] : k \in 0..n}

NoDownload == [status |-> 0, downloaded_songs |-> None, songs |-> <<>>,
               outs |-> <<>>, processed |-> 0]

post_download_songs(batches) ==
    \E song_names \in batches :
    \E outs \in [1..Len(song_names) -> Outcomes] :
        LET r == download_songs(song_names, outs, fs)
        IN  /\ fs' = r.files
            /\ dresp' = [status |-> r.status, downloaded_songs |-> r.downloaded_songs,
                         songs |-> song_names, outs |-> outs, processed |-> r.processed]
            /\ sinceCreate' = [n \in FileNames |->
                                  IF n \in r.written THEN {} ELSE sinceCreate[n]]
            /\ gone' = gone \ r.written
            /\ UNCHANGED <<req, provider, vresp, pages>>

\* -------------------------------------------- GET /download_file/<filename>

Req == 1..MaxReq

\* the names a client asks for: the ones download_songs answers with, the
\* ones on disk, and the directory entries "." and ".."
RequestNames ==
    {basename(DOWNLOAD_FOLDER \o Slash \o t \o Mp3) : t \in Titles}
    \cup FileNames \cup {<<".">>, <<".", ".">>}

\* the route's <filename> converter: one non-empty segment
RouteMatches(filename) == filename # <<>> /\ ~HasSep(filename)

download_file_eager(filename, files) ==
    LET file_path == safe_join(DOWNLOAD_FOLDER, filename)
        response == send_file(file_path, files)
    IN  IF response.raised
        THEN [status |-> 404, file_path |-> file_path,
              touched |-> response.touched, on_close |-> None, files |-> files]
        ELSE [status |-> 200, file_path |-> file_path,
              touched |-> response.touched, on_close |-> file_path,
              files |-> os_remove(file_path, files).files]

download_file_keep(filename, files) ==
    LET file_path == safe_join(DOWNLOAD_FOLDER, filename)
        response == send_file(file_path, files)
    IN  [status |-> IF response.raised THEN 404 ELSE 200, file_path |-> file_path,
         touched |-> response.touched, on_close |-> None, files |-> files]

\* the handler: the answer, the path it opened, the path its call_on_close
\* callback will remove, and the files it leaves
download_file(filename, files) ==
    LET file_path == safe_join(DOWNLOAD_FOLDER, filename)
        response == send_file(file_path, files)
    IN  IF response.raised
        THEN [status |-> 404, file_path |-> file_path,
              touched |-> response.touched, on_close |-> None, files |-> files]
        ELSE [status |-> 200, file_path |-> file_path,
              touched |-> response.touched, on_close |-> file_path, files |-> files]

Idle == [pc |-> "idle", filename |-> None, file_path |-> None, status |-> 0,
         touched |-> None, on_close |-> None, ended |-> "none",
         removeArg |-> None, removeFailed |-> FALSE,
         during |-> {}, prior |-> {}, afterDelivery |-> FALSE]

\* requests whose transfer of the same path is in progress
Sending(path) == {q \in Req : req[q].pc = "sending" /\ req[q].file_path = path}

get_download_file(r, filename) ==
    /\ req[r].pc = "idle"
    /\ \A q \in Req : q < r => req[q].pc # "idle"
    /\ RouteMatches(filename)
    /\ LET h == download_file(filename, fs)
           entry == IF h.file_path = None THEN None ELSE EntryOf(h.file_path)
       IN  /\ fs' = h.files
           /\ req' = [req EXCEPT ![r] =
                  [Idle EXCEPT
                     !.pc = IF h.status = 200 THEN "sending" ELSE "closed",
                     !.filename = filename,
                     !.file_path = h.file_path,
                     !.status = h.status,
                     !.touched = h.touched,
                     !.on_close = h.on_close,
                     !.during = Sending(h.file_path),
                     !.prior = IF h.status = 200 THEN sinceCreate[entry] ELSE {},
                     !.afterDelivery = entry \in gone]]
           /\ sinceCreate' = IF h.status = 200
                             THEN [sinceCreate EXCEPT ![entry] = @ \cup {r}]
                             ELSE sinceCreate
    /\ UNCHANGED <<dresp, gone, provider, vresp, pages>>

\* The server closes the response when the transfer ends, however it ends;
\* close runs the callbacks registered with call_on_close.
response_close(r, how) ==
    /\ req[r].pc = "sending"
    /\ LET rm == os_remove(req[r].on_close, fs)
       IN  IF req[r].on_close = None
           THEN /\ fs' = fs
                /\ req' = [req EXCEPT ![r].pc = "closed", ![r].ended = how]
           ELSE /\ fs' = rm.files
                /\ req' = [req EXCEPT ![r].pc = "closed", ![r].ended = how,
                                      ![r].removeArg = req[r].on_close,
                                      ![r].removeFailed = rm.raised]
    /\ gone' = gone \cup {EntryOf(req[r].file_path)}
    /\ UNCHANGED <<dresp, sinceCreate, provider, vresp, pages>>

transfer_complete(r) == response_close(r, "complete")

client_disconnect(r) == response_close(r, "abort")

\* --------------------------------------------------- POST /validate_song

Limit == 5

\* no record: a missing body, a call not made
Absent == [absent |-> TRUE]

Min(a, b) == IF a < b THEN a ELSE b

\* s[start:end] for 0 <= start <= end
PySlice(s, start, end) == SubSeq(s, Min(start, Len(s)) + 1, Min(end, Len(s)))

\* a non-empty value: what "if x:" takes
Truthy(x) == x # None /\ x # <<>>

\* The search provider is stable: for the query it has the entries 1..total in
\* one order, each its own video; entry noThumb (if any) has no thumbnails.
Entry(prov, i) ==
    [title |-> i, url |-> i, duration |-> i,
     thumbnails |-> IF i = prov.noThumb THEN <<>> ELSE <<[url |-> i]>>]

Results(prov) == [i \in 1..prov.total |-> Entry(prov, i)]

\* ydl.extract_info("ytsearch<n>:<query>", download=False): the first n results
ytsearch(prov, n) == [entries |-> SubSeq(Results(prov), 1, Min(n, prov.total))]

search_youtube_songs_overlap(song_name, page, limit, prov) ==
    LET search_result == ytsearch(prov, limit * page)
        start == (page - 1) * (limit - 1)
        end == start + limit
    IN  [entries |-> PySlice(search_result.entries, start, end),
         has_more |-> Len(search_result.entries) > end]

search_youtube_songs(song_name, page, limit, prov) ==
    LET search_result == ytsearch(prov, limit * page)
    IN  IF "entries" \in DOMAIN search_result
        THEN LET start == (page - 1) * limit
                 end == start + limit
             IN  [entries |-> PySlice(search_result.entries, start, end),
                  has_more |-> Len(search_result.entries) > end]
        ELSE [entries |-> <<>>, has_more |-> FALSE]

\* What sp.track(link) can do: raise, or return a track.
Tracks ==
    [name : {"n"}, album : [images : {<<>>, <<[url |-> "i"]>>}],
     duration_ms : {999, 2500}, preview_url : {None}]

SpOutcomes == {[kind |-> "raise"]} \cup {[kind |-> "track", track |-> t] : t \in Tracks}

\* What ydl.extract_info(link, download=False) can do: raise, or return a video.
YtOutcomes ==
    {[kind |-> "raise"],
     [kind |-> "info", info |-> [title |-> "t", thumbnail |-> "i", duration |-> 7, url |-> "u"]]}

get_spotify_track_info(spotify_link, sp_out) ==
    IF sp_out.kind = "raise" THEN [raised |-> TRUE, value |-> Absent]
    ELSE LET track_info == sp_out.track
         IN  IF Len(track_info.album.images) = 0
             THEN [raised |-> TRUE, value |-> Absent]
             ELSE [raised |-> FALSE,
                   value |-> [full_name |-> track_info.name,
                              preview_image |-> track_info.album.images[1].url,
                              duration |-> track_info.duration_ms \div 1000,
                              preview_url |-> track_info.preview_url]]

Answer(status, body, consulted, search) ==
    [status |-> status, body |-> body, consulted |-> consulted, search |-> search]

\* "if spotify_link:" of validate_song
spotify_branch(spotify_link, sp_out) ==
    LET r == get_spotify_track_info(spotify_link, sp_out)
    IN  IF r.raised
        THEN Answer(400, [error |-> "Invalid Spotify link"], {"spotify"}, Absent)
        ELSE LET track_info == r.value
             IN  IF {"name", "album", "duration_ms", "preview_url"} \subseteq DOMAIN track_info
                 THEN Answer(200,
                          [full_name |-> track_info.name,
                           preview_image |-> track_info.album.images[1].url,
                           duration |-> track_info.duration_ms \div 1000,
                           preview_url |-> track_info.preview_url,
                           source |-> "spotify"], {"spotify"}, Absent)
                 ELSE \* track_info['name']: KeyError, outside the try
                      Answer(500, Absent, {"spotify"}, Absent)

\* "if youtube_link:" of validate_song
youtube_branch(youtube_link, yt_out) ==
    IF yt_out.kind = "raise"
    THEN Answer(400, [error |-> "Invalid YouTube link"], {"youtube"}, Absent)
    ELSE Answer(200,
             [full_name |-> yt_out.info.title, preview_image |-> yt_out.info.thumbnail,
              duration |-> yt_out.info.duration, preview_url |-> yt_out.info.url,
              source |-> "youtube"], {"youtube"}, Absent)

NoInput(consulted, search) ==
    Answer(400, [error |-> "No valid song link or name provided"], consulted, search)

\* "if song_name:" of validate_song
song_branch(song_name, page, prov) ==
    LET found == search_youtube_songs(song_name, page, Limit, prov)
        youtube_results == found.entries
    IN  IF Len(youtube_results) > 0
        THEN IF \E i \in 1..Len(youtube_results) : Len(youtube_results[i].thumbnails) = 0
             THEN \* entry.get('thumbnails')[0]: IndexError
                  Answer(500, Absent, {"search"}, found)
             ELSE Answer(200,
                      [song_options |->
                          [i \in 1..Len(youtube_results) |->
                              [full_name |-> youtube_results[i].title,
                               preview_image |-> youtube_results[i].thumbnails[1].url,
                               youtube_link |-> youtube_results[i].url,
                               duration |-> youtube_results[i].duration,
                               preview_url |-> youtube_results[i].url]],
                       has_more |-> found.has_more], {"search"}, found)
        ELSE NoInput({"search"}, found)

validate_song_try_next(data, sp_out, yt_out, prov) ==
    LET s == spotify_branch(data.spotify_link, sp_out)
        y == youtube_branch(data.youtube_link, yt_out)
    IN  IF Truthy(data.spotify_link) /\ s.status = 200 THEN s
        ELSE IF Truthy(data.youtube_link)
        THEN [y EXCEPT !.consulted =
                 @ \cup IF Truthy(data.spotify_link) THEN {"spotify"} ELSE {}]
        ELSE IF Truthy(data.spotify_link) THEN s
        ELSE IF Truthy(data.song_name) THEN song_branch(data.song_name, data.page, prov)
        ELSE NoInput({}, Absent)

validate_song(data, sp_out, yt_out, prov) ==
    IF Truthy(data.spotify_link) THEN spotify_branch(data.spotify_link, sp_out)
    ELSE IF Truthy(data.youtube_link) THEN youtube_branch(data.youtube_link, yt_out)
    ELSE IF Truthy(data.song_name) THEN song_branch(data.song_name, data.page, prov)
    ELSE NoInput({}, Absent)

Pages == 1..MaxPage

\* a field of the JSON body: absent, the empty string, or a value
Field(v) == {None, <<>>, v}

Datas == [song_name : Field(<<"q">>), youtube_link : Field(<<"y">>),
          spotify_link : Field(<<"s">>), page : Pages]

SearchDatas == {d \in Datas : d.spotify_link = None /\ d.youtube_link = None
                              /\ d.song_name = <<"q">>}

NoValidate == [status |-> 0, body |-> Absent, consulted |-> {}, search |-> Absent,
               data |-> Absent, track |-> Absent]

post_validate_song(datas) ==
    \E data \in datas : \E sp_out \in SpOutcomes : \E yt_out \in YtOutcomes :
        LET a == validate_song(data, sp_out, yt_out, provider)
        IN  /\ vresp' = [status |-> a.status, body |-> a.body,
                         consulted |-> a.consulted, search |-> a.search,
                         data |-> data,
                         track |-> IF "spotify" \in a.consulted THEN sp_out ELSE Absent]
            /\ pages' = IF "search" \in a.consulted
                        THEN [pages EXCEPT ![data.page] =
                                 [status |-> a.status, body |-> a.body]]
                        ELSE pages
            /\ UNCHANGED <<fs, dresp, req, sinceCreate, gone, provider>>

\* ---------------------------------------------------------- specifications

NoProvider == [total |-> 0, noThumb |-> 0]

InitFiles ==
    /\ dresp = NoDownload
    /\ req = [r \in Req |-> Idle]
    /\ sinceCreate = [n \in FileNames |-> {}]
    /\ gone = {}
    /\ provider = NoProvider
    /\ vresp = NoValidate
    /\ pages = [p \in Pages |-> Absent]

\* the batches of at most one song, named "a"
OneSongBatches == {<<>>, <<<<"a">>>>}

\* The handlers of the download directory: deliveries against one-song batches.
Init == InitFiles /\ fs = {}

Next ==
    \/ post_download_songs(OneSongBatches)
    \/ \E r \in Req : \E filename \in RequestNames : get_download_file(r, filename)
    \/ \E r \in Req : transfer_complete(r)
    \/ \E r \in Req : client_disconnect(r)

Spec == Init /\ [][Next]_vars

\* One batch of POST /download_songs, over the files earlier batches left.
InitDownload == InitFiles /\ fs \in SUBSET FileNames

NextDownload == dresp.status = 0 /\ post_download_songs(Batches(MaxSongs))

SpecDownload == InitDownload /\ [][NextDownload]_vars

InitProvider ==
    /\ fs = {}
    /\ dresp = NoDownload
    /\ req = [r \in Req |-> Idle]
    /\ sinceCreate = [n \in FileNames |-> {}]
    /\ gone = {}
    /\ \E total \in 0..MaxResults : \E noThumb \in 0..total :
           provider = [total |-> total, noThumb |-> noThumb]
    /\ vresp = NoValidate
    /\ pages = [p \in Pages |-> Absent]

\* One POST /validate_song with any of its inputs.
NextValidate == vresp.status = 0 /\ post_validate_song(Datas)

SpecValidate == InitProvider /\ [][NextValidate]_vars

\* Free-text searches of one query, page after page.
NextSearch == post_validate_song(SearchDatas)

SpecSearch == InitProvider /\ [][NextSearch]_vars

\* ------------------------------------------------------------------ claims

Started(r) == req[r].pc # "idle"

\* requests for the same path whose transfers were in progress at one time
Overlapping(r) ==
    {q \in Req \ {r} : /\ Started(q)
                       /\ req[q].file_path = req[r].file_path
                       /\ (q \in req[r].during \/ r \in req[q].during)}

C2_DeleteAfterTransfer ==
    \A r \in Req :
        /\ (req[r].pc = "sending" /\ \A q \in Overlapping(r) : req[q].pc # "closed")
               => IsFile(req[r].file_path, fs)
        /\ req[r].removeArg # None => req[r].pc = "closed"
        /\ (req[r].pc = "closed" /\ req[r].status = 200)
               => /\ req[r].ended \in {"complete", "abort"}
                  /\ req[r].removeArg = req[r].file_path
                  /\ EntryOf(req[r].file_path) \in gone => ~IsFile(req[r].file_path, fs)

C2_Witness ==
    \E r, q \in Req :
        /\ req[r].ended = "abort" /\ req[r].removeArg # None /\ ~req[r].removeFailed
        /\ req[q].ended = "complete" /\ req[q].removeArg # None /\ ~req[q].removeFailed

\* C3: a request for a name that an earlier request was served, whose transfer
\* has ended, with no download producing that name since, is answered 404.
C3_SecondRequestNotFound ==
    \A r \in Req : (Started(r) /\ req[r].afterDelivery) => req[r].status = 404

C3_Witness ==
    \E r, q \in Req :
        /\ q < r
        /\ req[q].status = 200 /\ req[q].ended = "complete"
        /\ req[r].filename = req[q].filename
        /\ req[r].afterDelivery /\ req[r].status = 404

\* C10 as stated: of the requests for one file at most one is served, and no
\* remove runs on a file already removed.
C10_ReadOnce ==
    \A r \in Req : /\ req[r].status = 200 => req[r].prior = {}
                   /\ ~req[r].removeFailed

\* C10 amended: a request is served a file that an earlier request was served
\* only while that request's transfer is still in progress, and a remove runs
\* on a file already removed only when an overlapping request closed first.
C10_ReadOnceUnlessOverlapping ==
    \A r \in Req :
        /\ req[r].status = 200 => req[r].prior \subseteq req[r].during
        /\ req[r].removeFailed => \E q \in Overlapping(r) : req[q].pc = "closed"

C10_Witness ==
    \E r, q \in Req :
        /\ q \in req[r].prior /\ req[r].status = 200 /\ req[q].status = 200
        /\ req[r].pc = "closed" /\ req[q].pc = "closed"
        /\ req[r].removeFailed \/ req[q].removeFailed

Raised(o) == o.kind = "raise"

\* the call came back with a video
Produced(o) ==
    o.kind = "info" /\ "entries" \in DOMAIN o.info /\ Len(o.info.entries) > 0

\* the file names of the calls that produced a result, in input order
RECURSIVE ProducedNames(_)
ProducedNames(outs) ==
    IF Len(outs) = 0 THEN <<>>
    ELSE (IF Produced(Head(outs))
          THEN <<basename(DOWNLOAD_FOLDER \o Slash \o Head(outs).info.entries[1].title \o Mp3)>>
          ELSE <<>>) \o ProducedNames(Tail(outs))

\* C4: when the collaborator fails (raises) for a name of the batch, every
\* name is still processed, the answer is 200 and downloaded_songs holds the
\* file names of the other names.
C4_FailureTolerant ==
    (dresp.status # 0 /\ \E i \in 1..Len(dresp.outs) : Raised(dresp.outs[i]))
        => /\ dresp.status = 200
           /\ dresp.processed = Len(dresp.songs)
           /\ dresp.downloaded_songs =
                  ProducedNames(SelectSeq(dresp.outs, LAMBDA o : ~Raised(o)))

\* C5: when every call of the collaborator comes back, with a result or with
\* none, the answer lists one file name for each name with a result and none
\* for the others, in input order.
C5_OrderedFilenames ==
    (dresp.status # 0 /\ \A i \in 1..Len(dresp.outs) : ~Raised(dresp.outs[i]))
        => /\ dresp.status = 200
           /\ dresp.downloaded_songs = ProducedNames(dresp.outs)

\* C6: has_more is true exactly when the provider has more than page * 5
\* results for the query.
C6_HasMore ==
    vresp.search # Absent
        => (vresp.search.has_more <=> provider.total > vresp.data.page * Limit)

\* C7: a Spotify link whose lookup succeeds is answered with the track's
\* metadata, duration being duration_ms integer-divided by 1000.
C7_SpotifyMetadata ==
    (vresp.status # 0 /\ Truthy(vresp.data.spotify_link)
        /\ vresp.track.kind = "track" /\ Len(vresp.track.track.album.images) > 0)
        => /\ vresp.status = 200
           /\ vresp.body.duration = vresp.track.track.duration_ms \div 1000
           /\ vresp.body.full_name = vresp.track.track.name
           /\ vresp.body.source = "spotify"

HasOptions(p) == pages[p] # Absent /\ pages[p].status = 200

Links(p) ==
    {pages[p].body.song_options[i].youtube_link :
        i \in 1..Len(pages[p].body.song_options)}

\* the option made of the provider's result at position i (counted from 1)
OptionAt(i) ==
    LET e == Results(provider)[i]
    IN  [full_name |-> e.title, preview_image |-> e.thumbnails[1].url,
         youtube_link |-> e.url, duration |-> e.duration, preview_url |-> e.url]

\* C8: the options answered for page p are the provider's results at the
\* positions [(p-1)*5, p*5), at most 5 of them, and the options of two
\* consecutive pages share no video.
C8_PageWindows ==
    /\ \A p \in Pages : HasOptions(p) =>
           LET first == (p - 1) * Limit
               n == Min(p * Limit, provider.total) - first
           IN  /\ Len(pages[p].body.song_options) <= Limit
               /\ pages[p].body.song_options = [i \in 1..n |-> OptionAt(first + i)]
    /\ \A p \in Pages : (p + 1 \in Pages /\ HasOptions(p) /\ HasOptions(p + 1))
           => Links(p) \cap Links(p + 1) = {}

C8_Witness ==
    /\ HasOptions(1) /\ HasOptions(2)
    /\ Len(pages[1].body.song_options) = Limit
    /\ Len(pages[2].body.song_options) >= 2

\* the input validate_song honours: the first non-empty one
Honoured(d) ==
    IF Truthy(d.spotify_link) THEN "spotify"
    ELSE IF Truthy(d.youtube_link) THEN "youtube"
    ELSE IF Truthy(d.song_name) THEN "search"
    ELSE "none"

ErrorOf(a) == IF a.status = 400 THEN a.body.error ELSE ""

SourceOf(a) ==
    IF a.status = 200 /\ "source" \in DOMAIN a.body THEN a.body.source ELSE ""

\* C9: only the collaborator of the first non-empty input among spotify_link,
\* youtube_link, song_name is called, and the answer is that input's result,
\* its error, or the failure of its own branch.
C9_InputPriority ==
    vresp.status # 0 =>
        LET h == Honoured(vresp.data)
        IN  /\ vresp.consulted = IF h = "none" THEN {} ELSE {h}
            /\ h = "spotify" => \/ ErrorOf(vresp) = "Invalid Spotify link"
                                \/ SourceOf(vresp) = "spotify"
                                \/ vresp.status = 500
            /\ h = "youtube" => \/ ErrorOf(vresp) = "Invalid YouTube link"
                                \/ SourceOf(vresp) = "youtube"
            /\ h = "search" => \/ vresp.status = 200 /\ "song_options" \in DOMAIN vresp.body
                               \/ ErrorOf(vresp) = "No valid song link or name provided"
                               \/ vresp.status = 500
            /\ h = "none" => ErrorOf(vresp) = "No valid song link or name provided"

C9_Witness ==
    /\ vresp.status = 400
    /\ Truthy(vresp.data.spotify_link) /\ Truthy(vresp.data.youtube_link)
    /\ Truthy(vresp.data.song_name)
    /\ vresp.body.error = "Invalid Spotify link"

====
